---- MODULE Spec2Model ----
(***************************************************************************)
(* Shard-level storage engine of the streaming library: the global Index   *)
(* (streaming/base/index.py), the delimited XSV codec                      *)
(* (streaming/base/format/xsv), the packed MDS shard writer                *)
(* (streaming/base/format/mds/writer.py) and the descriptor dispatch       *)
(* (streaming/base/format/__init__.py).                                    *)
(***************************************************************************)
EXTENDS Integers, Sequences, FiniteSets, TLC

VARIABLES
    \* ---- Index (index.py) ----
    shard_sizes,    \* Index.shard_sizes
    idx,            \* argument of the running find()
    low, high,      \* locals of find()
    find_pc,        \* "idle" | "loop" | "done"
    find_iter,      \* parity of the number of passes through the loop body
    find_result,    \* [kind, shard, offset] of the last find()
    \* ---- XSV codec (xsv/writer.py, xsv/reader.py) ----
    xsv_writer,     \* the XSVWriter object: [state, columns, separator, newline]
    xsv_sample,     \* the sample dict handed to _encode_sample
    xsv_encoded,    \* [kind, data]: outcome of XSVWriter._encode_sample
    xsv_decoded,    \* [kind, sample]: outcome of XSVReader._decode_sample
    \* ---- XSV shard (XSVWriter._encode_split_shard, XSVReader) ----
    xs_new_samples, \* XSVWriter.new_samples: the buffered encoded samples
    xs_shard,       \* the flushed shard: [state, data, meta]
    xs_get,         \* outcome of the last reader[idx]
    \* ---- MDS writer (mds/writer.py) ----
    mds_writer,     \* the MDSWriter object
    mds_shards,     \* the shards flushed so far: [blob, bytes, accounted]
    mds_added,      \* byte lengths of the samples written so far, in order
    \* ---- descriptor dispatch (format/__init__.py, xsv/reader.py) ----
    json_obj,       \* the descriptor handed to reader_from_json
    json_result     \* [kind, why, reader]: outcome of reader_from_json

idxVars == <<shard_sizes, idx, low, high, find_pc, find_iter, find_result>>
codecVars == <<xsv_writer, xsv_sample, xsv_encoded, xsv_decoded>>
shardVars == <<xs_new_samples, xs_shard, xs_get>>
mdsVars == <<mds_writer, mds_shards, mds_added>>
jsonVars == <<json_obj, json_result>>

vars == <<idxVars, codecVars, shardVars, mdsVars, jsonVars>>

\* everything but one component
exceptIndex == <<codecVars, shardVars, mdsVars, jsonVars>>
exceptCodec == <<idxVars, shardVars, mdsVars, jsonVars>>
exceptShard == <<idxVars, codecVars, mdsVars, jsonVars>>
exceptMds == <<idxVars, codecVars, shardVars, jsonVars>>
exceptJson == <<idxVars, codecVars, shardVars, mdsVars>>

\* ------------------------------------------------------------------------
\* Bounds
\* ------------------------------------------------------------------------
MaxShards == 3       \* number of shards of an Index
MaxShardSize == 2    \* samples per shard of an Index
MaxSepLen == 2       \* characters of a separator
MaxValueLen == 2     \* characters of a str column value
MaxBuffered == 2     \* samples buffered for one XSV shard
MaxAdded == 3        \* samples written to one MDS writer

\* ------------------------------------------------------------------------
\* Generic helpers
\* ------------------------------------------------------------------------
RECURSIVE SumSeq(_)
SumSeq(s) == IF s = <<>> THEN 0 ELSE s[1] + SumSeq(Tail(s))

SeqsUpTo(S, n) == UNION {[1..k -> S] : k \in 0..n}

\* ========================================================================
\* Index  (src/streaming/base/index.py)
\* ========================================================================

\* self.size = sum(shard_sizes)
IndexSize(sizes) == SumSeq(sizes)

\* self.shard_offsets = np.array([0] + shard_sizes).cumsum().tolist()
\* (0-based like the Python list: entries 0 .. len(shard_sizes))
ShardOffsets(sizes) == [k \in 0..Len(sizes) |-> SumSeq(SubSeq(sizes, 1, k))]

NoResult == [kind |-> "none", shard |-> 0, offset |-> 0]

\* find(idx): entry, up to the first test of the loop
FindCall(i) ==
    /\ find_pc \in {"idle", "done"}
    /\ idx' = i
    /\ low' = 0
    /\ high' = Len(shard_sizes)        \* len(self.shard_offsets) - 1
    /\ find_pc' = "loop"
    /\ find_iter' = 0
    /\ find_result' = NoResult
    /\ UNCHANGED shard_sizes
    /\ UNCHANGED exceptIndex

\* what one pass of the `while True` body does to (low, high), and the shard
\* it breaks with (-1: no break)
FindBody(offs, i, lo, hi) ==
    IF lo + 1 = hi
    THEN [low |-> lo, high |-> hi,
          shard |-> IF i = offs[hi] THEN hi ELSE lo]
    ELSE LET mid == (lo + hi) \div 2
             div == offs[mid]
         IN  IF i < div THEN [low |-> lo, high |-> mid, shard |-> -1]
             ELSE IF div < i THEN [low |-> mid, high |-> hi, shard |-> -1]
             ELSE [low |-> lo, high |-> hi, shard |-> mid]

\* one iteration of the loop; on break, the two statements after the loop
FindLoop ==
    /\ find_pc = "loop"
    /\ LET offs == ShardOffsets(shard_sizes)
           b == FindBody(offs, idx, low, high)
       IN  /\ low' = b.low
           /\ high' = b.high
           /\ find_iter' = 1 - find_iter
           /\ IF b.shard # -1
              THEN /\ find_pc' = "done"
                   /\ find_result' = [kind |-> "return", shard |-> b.shard,
                                      offset |-> idx - offs[b.shard]]
              ELSE /\ find_pc' = "loop"
                   /\ UNCHANGED find_result
    /\ UNCHANGED <<shard_sizes, idx>>
    /\ UNCHANGED exceptIndex

IndexNext ==
    \/ \E i \in -1..(IndexSize(shard_sizes) + 1) : FindCall(i)
    \/ FindLoop

\* ========================================================================
\* XSV codec  (src/streaming/base/format/xsv/writer.py, reader.py)
\* ========================================================================
\* A Python str is a sequence of one-character strings, a bytes object a
\* sequence of integers 0..255.

Max(a, b) == IF a >= b THEN a ELSE b

\* str.encode('utf-8') of one character of the modelled alphabet
Utf8Char(c) ==
    CASE c = "a"  -> <<97>>
      [] c = "x"  -> <<120>>
      [] c = "y"  -> <<121>>
      [] c = "|"  -> <<124>>
      [] c = "-"  -> <<45>>
      [] c = "0"  -> <<48>>
      [] c = "1"  -> <<49>>
      [] c = "2"  -> <<50>>
      [] c = "7"  -> <<55>>
      [] c = "\n" -> <<10>>
      [] c = "\r" -> <<13>>
      [] c = "e'" -> <<195, 169>>      \* U+00E9, two bytes

Chars == {"a", "x", "y", "|", "-", "0", "1", "2", "7", "\n", "\r", "e'"}

\* text.encode('utf-8')
RECURSIVE Utf8Encode(_)
Utf8Encode(text) ==
    IF text = <<>> THEN <<>> ELSE Utf8Char(text[1]) \o Utf8Encode(Tail(text))

\* data.decode('utf-8')
RECURSIVE Utf8Decode(_)
Utf8Decode(data) ==
    IF data = <<>> THEN <<>>
    ELSE IF data[1] < 128
         THEN <<CHOOSE c \in Chars : Utf8Char(c) = <<data[1]>> >>
              \o Utf8Decode(Tail(data))
         ELSE <<CHOOSE c \in Chars : Utf8Char(c) = <<data[1], data[2]>> >>
              \o Utf8Decode(Tail(Tail(data)))

\* `needle in hay` for two str
Contains(needle, hay) ==
    \E i \in 1..(Len(hay) - Len(needle) + 1) :
        SubSeq(hay, i, i + Len(needle) - 1) = needle

\* hay.find(needle): 1-based position of the leftmost occurrence, 0 if none
FindFirst(needle, hay) ==
    IF Contains(needle, hay)
    THEN CHOOSE i \in 1..(Len(hay) - Len(needle) + 1) :
            /\ SubSeq(hay, i, i + Len(needle) - 1) = needle
            /\ \A j \in 1..(i - 1) : SubSeq(hay, j, j + Len(needle) - 1) # needle
    ELSE 0

\* text.split(sep) for a non-empty sep: leftmost, non-overlapping matches
RECURSIVE StrSplit(_, _)
StrSplit(text, sep) ==
    LET p == FindFirst(sep, text)
    IN  IF p = 0 THEN <<text>>
        ELSE <<SubSeq(text, 1, p - 1)>>
             \o StrSplit(SubSeq(text, p + Len(sep), Len(text)), sep)

\* sep.join(parts)
RECURSIVE StrJoin(_, _)
StrJoin(sep, parts) ==
    IF parts = <<>> THEN <<>>
    ELSE IF Len(parts) = 1 THEN parts[1]
    ELSE parts[1] \o sep \o StrJoin(sep, Tail(parts))

\* text[:-k]  (text[:-0] is text[:0], the empty string)
DropLast(text, k) ==
    IF k = 0 THEN <<>> ELSE SubSeq(text, 1, Max(Len(text) - k, 0))

\* ---- per-column encodings (xsv/encodings.py: the text-safe registry) ----
\* A column value is [t |-> "str", s |-> text, i |-> 0] or
\* [t |-> "int", s |-> <<>>, i |-> number].
StrVal(text) == [t |-> "str", s |-> text, i |-> 0]
IntVal(n) == [t |-> "int", s |-> <<>>, i |-> n]

Digit(d) == CASE d = 0 -> "0" [] d = 1 -> "1" [] d = 2 -> "2" [] d = 7 -> "7"

RECURSIVE NatStr(_)
NatStr(n) == IF n < 10 THEN <<Digit(n)>> ELSE NatStr(n \div 10) \o <<Digit(n % 10)>>

IntStr(n) == IF n < 0 THEN <<"-">> \o NatStr(-n) ELSE NatStr(n)

IntValues == {-1, 7, 12}

is_xsv_encoding(encoding) == encoding \in {"str", "int"}

xsv_encode(encoding, value) ==
    IF encoding = "str" THEN value.s ELSE IntStr(value.i)

\* [kind |-> "ok", value] or [kind |-> "ValueError"] (int() of a non-number)
xsv_decode(encoding, part) ==
    IF encoding = "str" THEN [kind |-> "ok", value |-> StrVal(part)]
    ELSE IF \E n \in IntValues : IntStr(n) = part
         THEN [kind |-> "ok",
               value |-> IntVal(CHOOSE n \in IntValues : IntStr(n) = part)]
         ELSE [kind |-> "ValueError", value |-> IntVal(0)]

\* ---- XSVWriter ----
ColName(col) == col[1]
ColEncoding(col) == col[2]
ColumnNames(columns) == [k \in 1..Len(columns) |-> ColName(columns[k])]
ColumnEncodings(columns) == [k \in 1..Len(columns) |-> ColEncoding(columns[k])]
SeqRange(q) == {q[k] : k \in 1..Len(q)}

\* XSVWriter.__init__: the outcome of the constructor's checks
XSVWriterCheck(columns, separator, newline) ==
    IF columns = <<>> THEN "ValueError"          \* zip(*[]) does not unpack
    ELSE IF Cardinality(SeqRange(ColumnNames(columns))) # Len(columns)
         THEN "AssertionError"
    ELSE IF \E k \in 1..Len(columns) :
                \/ Contains(newline, ColName(columns[k]))
                \/ Contains(separator, ColName(columns[k]))
         THEN "AssertionError"
    ELSE IF \E k \in 1..Len(columns) : ~is_xsv_encoding(ColEncoding(columns[k]))
         THEN "AssertionError"
    ELSE "ok"

NoWriter == [state |-> "none", columns |-> <<>>, separator |-> <<>>, newline |-> <<>>]
NoBytes == [kind |-> "none", data |-> <<>>]
NoSample == [kind |-> "none", sample |-> <<>>]

\* XSVWriter._encode_sample
XSVEncodeSample(w, sample) ==
    LET values == [k \in 1..Len(w.columns) |->
                     xsv_encode(ColEncoding(w.columns[k]), sample[ColName(w.columns[k])])]
    IN  IF \E k \in 1..Len(values) :
              Contains(w.newline, values[k]) \/ Contains(w.separator, values[k])
        THEN [kind |-> "AssertionError", data |-> <<>>]
        ELSE [kind |-> "ok",
              data |-> Utf8Encode(StrJoin(w.separator, values) \o w.newline)]

Min(a, b) == IF a <= b THEN a ELSE b

\* XSVReader._decode_sample, for a reader holding column_names,
\* column_encodings, separator and newline
XSVDecodeSample(column_names, column_encodings, separator, newline, data) ==
    LET text == DropLast(Utf8Decode(data), Len(newline))
        parts == StrSplit(text, separator)
        n == Min(Len(column_names), Len(parts))      \* zip stops at the shortest
        dec == [k \in 1..n |-> xsv_decode(column_encodings[k], parts[k])]
    IN  IF \E k \in 1..n : dec[k].kind # "ok"
        THEN [kind |-> "ValueError", sample |-> <<>>]
        ELSE [kind |-> "ok",
              sample |-> [name \in {column_names[k] : k \in 1..n} |->
                            dec[CHOOSE k \in 1..n : column_names[k] = name
                                  /\ \A j \in (k + 1)..n : column_names[j] # name].value]]

\* inputs
Separators == SeqsUpTo({"|", "a"}, MaxSepLen)
Newlines == {<<>>, <<"\n">>, <<"\r", "\n">>, <<"|", "\n">>}
ColumnLists ==
    { <<>>,
      << <<(<<"x">>), "str">> >>,
      << <<(<<"x">>), "str">>, <<(<<"y">>), "str">> >>,
      << <<(<<"y">>), "int">>, <<(<<"x">>), "str">> >>,
      << <<(<<"x">>), "str">>, <<(<<"x">>), "str">> >>,
      << <<(<<"a", "x">>), "str">> >>,
      << <<(<<"x">>), "pkl">> >> }
StrValues == {StrVal(t) : t \in SeqsUpTo({"a", "|", "e'"}, MaxValueLen)}
ValuesOf(encoding) == IF encoding = "int" THEN {IntVal(n) : n \in IntValues} ELSE StrValues

\* the sample dicts over a writer's columns, each value of its column's type
SamplesOf(columns) ==
    {s \in [SeqRange(ColumnNames(columns)) -> StrValues \cup {IntVal(n) : n \in IntValues}] :
        \A k \in 1..Len(columns) : s[ColName(columns[k])] \in ValuesOf(ColEncoding(columns[k]))}

\* XSVWriter(dirname, columns, separator, newline=newline)
NewXSVWriter(columns, separator, newline) ==
    /\ xsv_writer.state = "none"
    /\ xsv_writer' = [state |-> XSVWriterCheck(columns, separator, newline),
                      columns |-> columns, separator |-> separator, newline |-> newline]
    /\ UNCHANGED <<xsv_sample, xsv_encoded, xsv_decoded>>
    /\ UNCHANGED exceptCodec

\* writer._encode_sample(sample)
EncodeSample(sample) ==
    /\ xsv_writer.state = "ok"
    /\ xsv_encoded.kind = "none"
    /\ xsv_sample' = sample
    /\ xsv_encoded' = XSVEncodeSample(xsv_writer, sample)
    /\ UNCHANGED <<xsv_writer, xsv_decoded>>
    /\ UNCHANGED exceptCodec

\* reader._decode_sample(data), the reader holding the writer's schema
DecodeSample ==
    /\ xsv_encoded.kind = "ok"
    /\ xsv_decoded.kind = "none"
    /\ xsv_decoded' = XSVDecodeSample(ColumnNames(xsv_writer.columns),
                                      ColumnEncodings(xsv_writer.columns),
                                      xsv_writer.separator, xsv_writer.newline,
                                      xsv_encoded.data)
    /\ UNCHANGED <<xsv_writer, xsv_sample, xsv_encoded>>
    /\ UNCHANGED exceptCodec

CodecNext ==
    \/ \E c \in ColumnLists, sep \in Separators, nl \in Newlines : NewXSVWriter(c, sep, nl)
    \/ \E s \in SamplesOf(xsv_writer.columns) : EncodeSample(s)
    \/ DecodeSample

\* ========================================================================
\* Byte counts
\* ========================================================================
\* A byte count or file position is an unbounded Python int; an offset-table
\* entry is a numpy uint32.  Both are written as two 16-bit limbs,
\* value = hi * HalfWord + lo, so that 2^32 and beyond can be told apart
\* from their uint32 images.
HalfWord == 65536

Big(h, l) == [hi |-> h, lo |-> l]
BigOf(n) == [hi |-> n \div HalfWord, lo |-> n % HalfWord]
BigAdd(a, b) ==
    [hi |-> a.hi + b.hi + ((a.lo + b.lo) \div HalfWord), lo |-> (a.lo + b.lo) % HalfWord]
BigLt(a, b) == a.hi < b.hi \/ (a.hi = b.hi /\ a.lo < b.lo)
BigLe(a, b) == a = b \/ BigLt(a, b)
BigMin(a, b) == IF BigLe(a, b) THEN a ELSE b

\* astype(np.uint32): the value modulo 2^32
U32(a) == [hi |-> a.hi % HalfWord, lo |-> a.lo]

\* a + b of two uint32 (numpy wraps)
U32Add(a, b) == U32(BigAdd(a, b))

\* a - b of two uint32 (numpy wraps)
U32Sub(a, b) ==
    LET borrow == IF a.lo < b.lo THEN 1 ELSE 0
    IN  [hi |-> (a.hi - b.hi - borrow + HalfWord) % HalfWord,
         lo |-> (a.lo - b.lo + HalfWord) % HalfWord]

RECURSIVE BigSum(_)
BigSum(q) == IF q = <<>> THEN BigOf(0) ELSE BigAdd(q[1], BigSum(Tail(q)))

\* np.array([0] + sizes).cumsum(): entries 0 .. len(sizes), 0-based
CumSum(sizes) == [k \in 0..Len(sizes) |-> BigSum(SubSeq(sizes, 1, k))]

\* ========================================================================
\* XSV shard  (XSVWriter._encode_split_shard, XSVReader._get_sample_data)
\* ========================================================================
\* A buffered sample is the bytes of one encoded row; the shard code only
\* takes its len() and concatenates it, so it is held as its byte length.

\* the first eight bytes of json.dumps(config, sort_keys=True), `{"column`,
\* as two little-endian uint32
ConfigWords == <<Big(28515, 8827), Big(28269, 30060)>>

\* XSVWriter._encode_split_shard
\*   data: the header row, then the samples in buffer order
\*   meta: num_samples, the offsets (0-based k = 0..n), the config text
XSVEncodeSplitShard(w, new_samples) ==
    LET header == Utf8Encode(StrJoin(w.separator, ColumnNames(w.columns)) \o w.newline)
        header_offset == BigOf(Len(header))
        sums == CumSum(new_samples)
        offsets == [k \in 0..Len(new_samples) |-> U32Add(header_offset, U32(sums[k]))]
    IN  [data |-> [header |-> header, samples |-> new_samples],
         meta |-> [num_samples |-> U32(BigOf(Len(new_samples))),
                   offsets |-> offsets,
                   config |-> ConfigWords]]

\* len(data)
DataLen(data) == BigAdd(BigOf(Len(data.header)), BigSum(data.samples))

\* the uint32 at 0-based word position p of the meta file
MetaWord(meta, p) ==
    IF p = 0 THEN meta.num_samples
    ELSE IF p - 1 \in DOMAIN meta.offsets THEN meta.offsets[p - 1]
    ELSE meta.config[p - Cardinality(DOMAIN meta.offsets)]

\* XSVReader._get_sample_data(idx): the byte range [start, stop) of the data
\* file that is returned, or the exception of seek() on a negative position
XSVGetSampleData(shard, i) ==
    LET offset == (1 + i) * 4
    IN  IF offset < 0 THEN [kind |-> "OSError", start |-> BigOf(0), stop |-> BigOf(0)]
        ELSE LET begin == MetaWord(shard.meta, 1 + i)
                 end == MetaWord(shard.meta, 2 + i)
                 size == DataLen(shard.data)
             IN  [kind |-> "ok",
                  start |-> BigMin(begin, size),
                  stop |-> BigMin(BigAdd(begin, U32Sub(end, begin)), size)]

\* the outcomes of XSVReader._decode_sample on some bytes: a sample dict, or
\* the exception of a column's decode function
DecodeOutcomes == {"sample", "ValueError"}

\* byte lengths of the samples that are buffered
SampleLens == {BigOf(2), BigOf(5), Big(32768, 0), Big(65535, 65535)}

NoShard == [state |-> "none", data |-> [header |-> <<>>, samples |-> <<>>],
            meta |-> [num_samples |-> BigOf(0), offsets |-> [k \in {0} |-> BigOf(0)],
                      config |-> ConfigWords],
            buffered |-> <<>>]
NoGet == [kind |-> "none", idx |-> 0, start |-> BigOf(0), stop |-> BigOf(0)]

\* the writer buffers one more encoded sample
XsAddSample(len) ==
    /\ xsv_writer.state = "ok"
    /\ xs_shard.state = "none"
    /\ Len(xs_new_samples) < MaxBuffered
    /\ xs_new_samples' = Append(xs_new_samples, len)
    /\ UNCHANGED <<xs_shard, xs_get>>
    /\ UNCHANGED exceptShard

\* the writer flushes: _encode_split_shard, the two blobs become the raw
\* data and meta files, the buffer is cleared
XsFlush ==
    /\ xsv_writer.state = "ok"
    /\ xs_shard.state = "none"
    /\ LET blobs == XSVEncodeSplitShard(xsv_writer, xs_new_samples)
       IN  xs_shard' = [state |-> "written", data |-> blobs.data, meta |-> blobs.meta,
                        buffered |-> xs_new_samples]
    /\ xs_new_samples' = <<>>
    /\ UNCHANGED xs_get
    /\ UNCHANGED exceptShard

\* reader[i]: Reader.__getitem__ with XSVReader._get_sample_data
XsGetItem(i) ==
    /\ xs_shard.state = "written"
    /\ LET r == XSVGetSampleData(xs_shard, i)
       IN  IF r.kind # "ok"
           THEN xs_get' = [kind |-> r.kind, idx |-> i, start |-> r.start, stop |-> r.stop]
           ELSE \E k \in DecodeOutcomes :
                   xs_get' = [kind |-> k, idx |-> i, start |-> r.start, stop |-> r.stop]
    /\ UNCHANGED <<xs_new_samples, xs_shard>>
    /\ UNCHANGED exceptShard

ShardNext ==
    \/ \E c \in ColumnLists, sep \in Separators, nl \in Newlines : NewXSVWriter(c, sep, nl)
    \/ \E len \in SampleLens : XsAddSample(len)
    \/ XsFlush
    \/ \E i \in -2..(Len(xs_shard.buffered) + 1) : XsGetItem(i)

\* ========================================================================
\* MDS writer  (src/streaming/base/format/mds/writer.py)
\* ========================================================================
\* As for XSV, an encoded sample is held as its byte length.

extra_bytes_per_sample == 4

\* _encode_joint_shard with the cumulative sum taken over the sizes alone, so
\* that the table loses its final entry
MDSEncodeJointShard_NoFinalOffset(config_len, new_samples) ==
    LET n == Len(new_samples)
        sums == CumSum(new_samples)
        base == BigOf(4 + 4 * n + config_len)
    IN  [num_samples |-> U32(BigOf(n)),
         offsets |-> [k \in 0..(n - 1) |-> U32Add(U32(sums[k]), base)],
         config_len |-> config_len,
         samples |-> new_samples]

\* MDSWriter._encode_joint_shard: the four parts of the blob
\*   num_samples | offsets (0-based k = 0..n) | config_data | sample_data
MDSEncodeJointShard(config_len, new_samples) ==
    LET n == Len(new_samples)
        sums == CumSum(new_samples)
        base == BigOf(4 + 4 * (n + 1) + config_len)
    IN  [num_samples |-> U32(BigOf(n)),
         offsets |-> [k \in 0..n |-> U32Add(U32(sums[k]), base)],
         config_len |-> config_len,
         samples |-> new_samples]

\* len() of the blob
BlobLen(blob) ==
    BigAdd(BigOf(4 + 4 * Cardinality(DOMAIN blob.offsets) + blob.config_len),
           BigSum(blob.samples))

\* size_limit: Optional[int]
NoLimit == [none |-> TRUE, v |-> BigOf(0)]
Limit(n) == [none |-> FALSE, v |-> n]

NoMDSWriter ==
    [state |-> "none", size_limit |-> NoLimit, config_len |-> 0,
     extra_bytes_per_shard |-> 0, new_samples |-> <<>>, new_shard_size |-> BigOf(0)]

\* MDSWriter.__init__: config_data is the JSON text of the config, of
\* config_len bytes; the cache starts empty at the per-shard overhead
NewMDSWriter(config_len, size_limit) ==
    /\ mds_writer.state = "none"
    /\ mds_writer' = [state |-> "open", size_limit |-> size_limit,
                      config_len |-> config_len,
                      extra_bytes_per_shard |-> 4 + 4 + config_len,
                      new_samples |-> <<>>,
                      new_shard_size |-> BigOf(4 + 4 + config_len)]
    /\ UNCHANGED <<mds_shards, mds_added>>
    /\ UNCHANGED exceptMds

\* flush_shard: the blob of _encode_joint_shard becomes the raw data file
FlushedShard(w) ==
    LET blob == MDSEncodeJointShard(w.config_len, w.new_samples)
    IN  [blob |-> blob, bytes |-> BlobLen(blob), accounted |-> w.new_shard_size]

\* the writer after _reset_cache
ResetCache(w) ==
    [w EXCEPT !.new_samples = <<>>, !.new_shard_size = BigOf(w.extra_bytes_per_shard)]

\* add_sample: roll over first if the sample would pass the limit and
\* something is buffered, then buffer the sample
MdsWrite(len) ==
    /\ mds_writer.state = "open"
    /\ Len(mds_added) < MaxAdded
    /\ LET new_sample_size == BigAdd(len, BigOf(extra_bytes_per_sample))
           over == /\ ~mds_writer.size_limit.none
                   /\ BigLt(mds_writer.size_limit.v,
                            BigAdd(mds_writer.new_shard_size, new_sample_size))
                   /\ mds_writer.new_samples # <<>>
           w == IF over THEN ResetCache(mds_writer) ELSE mds_writer
       IN  /\ mds_shards' = IF over THEN Append(mds_shards, FlushedShard(mds_writer))
                                    ELSE mds_shards
           /\ mds_writer' = [w EXCEPT !.new_samples = Append(w.new_samples, len),
                                      !.new_shard_size = BigAdd(w.new_shard_size,
                                                                new_sample_size)]
    /\ mds_added' = Append(mds_added, len)
    /\ UNCHANGED exceptMds

\* finalize: flush what is buffered
MdsFinish ==
    /\ mds_writer.state = "open"
    /\ mds_shards' = IF mds_writer.new_samples # <<>>
                     THEN Append(mds_shards, FlushedShard(mds_writer))
                     ELSE mds_shards
    /\ mds_writer' = [ResetCache(mds_writer) EXCEPT !.state = "finished"]
    /\ UNCHANGED mds_added
    /\ UNCHANGED exceptMds

\* inputs
ConfigLens == {97, 130}
SizeLimits == {NoLimit, Limit(BigOf(150)), Limit(Big(1024, 0))}
MdsSampleLens == {BigOf(3), BigOf(40), Big(32768, 0), Big(65535, 65535)}

MdsNext ==
    \/ \E c \in ConfigLens, l \in SizeLimits : NewMDSWriter(c, l)
    \/ \E len \in MdsSampleLens : MdsWrite(len)
    \/ MdsFinish

\* ========================================================================
\* Descriptor dispatch  (format/__init__.py, xsv/reader.py, base/reader.py)
\* ========================================================================
\* A JSON object / Python dict is a function from its keys.  None is NoneVal
\* where a dict is expected, and <<>> where a string is expected (a string s
\* being <<s>>).
NoneVal == [none |-> TRUE]

DelKey(obj, key) == [k \in DOMAIN obj \ {key} |-> obj[k]]
SetKey(obj, key, value) == [k \in DOMAIN obj \cup {key} |-> IF k = key THEN value ELSE obj[k]]

\* FileInfo(basename, bytes, hashes)
FileInfoFields == {"basename", "bytes", "hashes"}

\* the parameters of XSVReader.__init__, none of which has a default
XSVReaderParams ==
    {"dirname", "split", "column_encodings", "column_names", "compression", "hashes",
     "newline", "raw_data", "raw_meta", "samples", "separator", "size_limit",
     "zip_data", "zip_meta"}

Failure(kind, why) == [kind |-> kind, why |-> why, reader |-> NoneVal]

\* SplitReader.__init__ / Reader.__init__ / XSVReader.__init__
XSVReaderNew(args) ==
    [dirname |-> args.dirname,
     split |-> IF args.split = <<>> THEN <<"">> ELSE args.split,     \* split or ''
     compression |-> args.compression,
     hashes |-> args.hashes,
     samples |-> args.samples,
     size_limit |-> args.size_limit,
     raw_data |-> args.raw_data,
     raw_meta |-> args.raw_meta,
     zip_data |-> args.zip_data,
     zip_meta |-> args.zip_meta,
     file_pairs |-> << <<args.raw_meta, args.zip_meta>>, <<args.raw_data, args.zip_data>> >>,
     column_encodings |-> args.column_encodings,
     column_names |-> args.column_names,
     newline |-> args.newline,
     separator |-> args.separator]

FileKeys == <<"raw_data", "raw_meta", "zip_data", "zip_meta">>

\* XSVReader.from_json
XSVReaderFromJson(dirname, split, obj) ==
    IF "version" \notin DOMAIN obj THEN Failure("KeyError", "version")
    ELSE IF obj.version # 2 THEN Failure("AssertionError", "version")
    ELSE IF "format" \notin DOMAIN obj THEN Failure("KeyError", "format")
    ELSE IF obj.format # "xsv" THEN Failure("AssertionError", "format")
    ELSE LET a1 == DelKey(DelKey(obj, "version"), "format")
             args == SetKey(SetKey(a1, "dirname", dirname), "split", split)
         IN  IF \E k \in 1..4 : FileKeys[k] \notin DOMAIN args
             THEN Failure("KeyError", "file info")
             ELSE IF \E k \in 1..4 : args[FileKeys[k]] = NoneVal
             THEN Failure("TypeError", "FileInfo(**None)")
             ELSE IF \E k \in 1..4 : DOMAIN args[FileKeys[k]] # FileInfoFields
             THEN Failure("TypeError", "FileInfo fields")
             ELSE IF DOMAIN args \ XSVReaderParams # {}
             THEN Failure("TypeError", "unexpected keyword argument")
             ELSE IF XSVReaderParams \ DOMAIN args # {}
             THEN Failure("TypeError", "missing argument")
             ELSE [kind |-> "reader", why |-> "", reader |-> XSVReaderNew(args)]

\* CSVReader.from_json
CSVReaderFromJson(dirname, split, obj) ==
    IF "format" \notin DOMAIN obj THEN Failure("KeyError", "format")
    ELSE IF obj.format # "csv" THEN Failure("AssertionError", "format")
    ELSE XSVReaderFromJson(dirname, split,
                           SetKey(SetKey(obj, "format", "xsv"), "separator", ","))

\* TSVReader.from_json
TSVReaderFromJson(dirname, split, obj) ==
    IF "format" \notin DOMAIN obj THEN Failure("KeyError", "format")
    ELSE IF obj.format # "tsv" THEN Failure("AssertionError", "format")
    ELSE XSVReaderFromJson(dirname, split,
                           SetKey(SetKey(obj, "format", "xsv"), "separator", "\t"))

\* the keys of the _readers table
ReaderFormats == {"csv", "json", "mds", "tsv", "xsv"}

\* reader_from_json
ReaderFromJson(dirname, split, obj) ==
    IF "version" \notin DOMAIN obj THEN Failure("KeyError", "version")
    ELSE IF obj.version # 2 THEN Failure("AssertionError", "version")
    ELSE IF "format" \notin DOMAIN obj THEN Failure("KeyError", "format")
    ELSE IF obj.format \notin ReaderFormats THEN Failure("KeyError", "format")
    ELSE CASE obj.format = "csv" -> CSVReaderFromJson(dirname, split, obj)
           [] obj.format = "tsv" -> TSVReaderFromJson(dirname, split, obj)
           [] obj.format = "xsv" -> XSVReaderFromJson(dirname, split, obj)
           [] OTHER -> [kind |-> "other", why |-> obj.format, reader |-> NoneVal]

\* ---- the descriptors ----
\* XSVWriter._get_config (CSVWriter and TSVWriter inherit it): the base
\* writer's fields, then columns, separator, newline
WriterBaseConfig(format, compression) ==
    [version |-> 2, format |-> format, compression |-> compression,
     hashes |-> <<"sha1">>, size_limit |-> 67108864]

XSVWriterGetConfig(format, columns, separator, newline, compression) ==
    LET obj == WriterBaseConfig(format, compression)
    IN  SetKey(SetKey(SetKey(obj, "columns", columns), "separator", separator),
               "newline", newline)

\* separator of the writer class of a format
WriterSeparator(format) ==
    CASE format = "csv" -> "," [] format = "tsv" -> "\t" [] OTHER -> "|"

FileInfoOf(basename, bytes) ==
    [basename |-> basename, bytes |-> bytes, hashes |-> [sha1 |-> "39f6"]]

\* the descriptor of a flushed shard: config, sample count, FileInfo pairs
WithFiles(config, samples, zip_data, zip_meta) ==
    SetKey(SetKey(SetKey(SetKey(SetKey(config, "samples", samples),
        "raw_data", FileInfoOf("shard.00000.xsv", 523)),
        "raw_meta", FileInfoOf("shard.00000.xsv.meta", 86)),
        "zip_data", zip_data),
        "zip_meta", zip_meta)

\* a descriptor made of the writer's config
WriterDescriptor(format, columns, newline, compression, zip_data, zip_meta) ==
    WithFiles(XSVWriterGetConfig(format, columns, WriterSeparator(format), newline,
                                 compression),
              2, zip_data, zip_meta)

\* a descriptor of the shape documented in xsv/reader.py
ReaderDescriptor(version, format, columns, newline, compression, zip_data, zip_meta) ==
    WithFiles([version |-> version, format |-> format, compression |-> compression,
               hashes |-> <<"sha1">>, size_limit |-> 67108864,
               column_names |-> ColumnNames(columns),
               column_encodings |-> ColumnEncodings(columns),
               separator |-> WriterSeparator(format), newline |-> newline],
              2, zip_data, zip_meta)

JsonColumnLists == { << <<"number", "int">>, <<"words", "str">> >>, << <<"b", "str">> >> }
Formats == {"csv", "tsv", "xsv", "mds", "pkl"}
Versions == {1, 2}
Compressions == {<<>>, <<"zstd:7">>}
ZipData == {NoneVal, FileInfoOf("shard.00000.xsv.zstd", 197)}
ZipMeta == {NoneVal, FileInfoOf("shard.00000.xsv.meta.zstd", 60)}

Descriptors ==
    {WriterDescriptor(f, c, "\n", z, zd, zm) :
        f \in Formats, c \in JsonColumnLists, z \in Compressions,
        zd \in ZipData, zm \in ZipMeta}
    \cup
    {ReaderDescriptor(v, f, c, "\n", z, zd, zm) :
        v \in Versions, f \in Formats, c \in JsonColumnLists, z \in Compressions,
        zd \in ZipData, zm \in ZipMeta}

NoResultJson == [kind |-> "none", why |-> "", reader |-> NoneVal]

\* a shard descriptor is read from the manifest
LoadDescriptor(obj) ==
    /\ json_obj = NoneVal
    /\ json_obj' = obj
    /\ UNCHANGED json_result
    /\ UNCHANGED exceptJson

\* reader_from_json(dirname, split, obj)
CallReaderFromJson(dirname, split) ==
    /\ json_obj # NoneVal
    /\ json_result.kind = "none"
    /\ json_result' = ReaderFromJson(dirname, split, json_obj)
    /\ UNCHANGED json_obj
    /\ UNCHANGED exceptJson

JsonNext ==
    \/ \E obj \in Descriptors : LoadDescriptor(obj)
    \/ \E split \in {<<>>, <<"train">>} : CallReaderFromJson("/data", split)

\* ========================================================================
\* Specifications: one per component, the other components at rest
\* ========================================================================
\* an Index over some shard sizes; no other object exists
InitIndex ==
    /\ shard_sizes \in SeqsUpTo(0..MaxShardSize, MaxShards) /\ idx = 0 /\ low = 0 /\ high = 0
    /\ find_pc = "idle" /\ find_iter = 0 /\ find_result = NoResult
    /\ xsv_writer = NoWriter /\ xsv_sample = <<>>
    /\ xsv_encoded = NoBytes /\ xsv_decoded = NoSample
    /\ xs_new_samples = <<>> /\ xs_shard = NoShard /\ xs_get = NoGet
    /\ mds_writer = NoMDSWriter /\ mds_shards = <<>> /\ mds_added = <<>>
    /\ json_obj = NoneVal /\ json_result = NoResultJson

\* nothing is constructed yet
InitIdle ==
    /\ shard_sizes = <<>> /\ idx = 0 /\ low = 0 /\ high = 0
    /\ find_pc = "idle" /\ find_iter = 0 /\ find_result = NoResult
    /\ xsv_writer = NoWriter /\ xsv_sample = <<>>
    /\ xsv_encoded = NoBytes /\ xsv_decoded = NoSample
    /\ xs_new_samples = <<>> /\ xs_shard = NoShard /\ xs_get = NoGet
    /\ mds_writer = NoMDSWriter /\ mds_shards = <<>> /\ mds_added = <<>>
    /\ json_obj = NoneVal /\ json_result = NoResultJson

SpecIndex == InitIndex /\ [][IndexNext]_vars

\* find() runs to its end once called: the loop is not preempted for ever
FairSpecIndex == SpecIndex /\ WF_vars(FindLoop)

SpecCodec == InitIdle /\ [][CodecNext]_vars

SpecShard == InitIdle /\ [][ShardNext]_vars

SpecMds == InitIdle /\ [][MdsNext]_vars

SpecJson == InitIdle /\ [][JsonNext]_vars

\* ========================================================================
\* Properties
\* ========================================================================

\* C1: for an Index over non-negative shard sizes and 0 <= idx < size,
\* find(idx) returns (k, off) with shard_offsets[k] <= idx < shard_offsets[k+1]
\* and off = idx - shard_offsets[k], so 0 <= off < shard_sizes[k]; an idx on
\* a cumulative boundary belongs to the shard that starts there.
C1_FindLocatesSample ==
    (find_pc = "done" /\ 0 <= idx /\ idx < IndexSize(shard_sizes)) =>
        LET offs == ShardOffsets(shard_sizes)
            k == find_result.shard
        IN  /\ find_result.kind = "return"
            /\ k \in 0..(Len(shard_sizes) - 1)
            /\ offs[k] <= idx /\ idx < offs[k + 1]
            /\ find_result.offset = idx - offs[k]
            /\ 0 <= find_result.offset /\ find_result.offset < shard_sizes[k + 1]

\* C2: find(idx) fails with an out-of-range condition for every idx < 0 and
\* every idx >= size; it never returns a (shard, offset) pair for such an idx.
C2_FindRejectsOutOfRange ==
    (find_pc = "done" /\ (idx < 0 \/ idx >= IndexSize(shard_sizes))) =>
        (find_result.kind = "IndexError" /\ find_result.kind # "return")

\* C10: find(idx) terminates for every Index (the empty one included) and
\* every idx: a running loop reaches its break.
C10_FindTerminates == (find_pc = "loop") ~> (find_pc = "done")

\* C3: reader[i] for i outside [0, length) fails; it never returns a sample
\* built from bytes read at a clamped, wrapped or out-of-table position.
\* (Stated with the weakest reading of "fails": any exception counts as the
\* out-of-range condition.  The reader has no IndexError at all.)
C3_GetItemRejectsOutOfRange ==
    (xs_get.kind # "none" /\ (xs_get.idx < 0 \/ xs_get.idx >= Len(xs_shard.buffered)))
        => xs_get.kind \in {"IndexError", "OSError", "ValueError"}

\* start and end of sample i (0-based) in the data file
SampleStart(shard, i) ==
    BigAdd(BigOf(Len(shard.data.header)), BigSum(SubSeq(shard.buffered, 1, i)))
SampleEnd(shard, i) == BigAdd(SampleStart(shard, i), shard.buffered[i + 1])

\* C4: in every shard of _encode_split_shard and for every i in [0, n), the
\* two uint32 the reader reads at byte 4*(1+i) of the meta file are (begin,
\* end) with data[begin:end] the bytes of the i-th buffered sample (that is,
\* the byte range the i-th sample occupies, which is also what the reader
\* returns); the first offset is the header row's length and the last is the
\* length of the data blob.
C4_OffsetsDelimitSamples ==
    xs_shard.state = "written" =>
        LET n == Len(xs_shard.buffered) IN
        /\ \A i \in 0..(n - 1) :
              /\ MetaWord(xs_shard.meta, 1 + i) = SampleStart(xs_shard, i)
              /\ MetaWord(xs_shard.meta, 2 + i) = SampleEnd(xs_shard, i)
              /\ XSVGetSampleData(xs_shard, i).start = SampleStart(xs_shard, i)
              /\ XSVGetSampleData(xs_shard, i).stop = SampleEnd(xs_shard, i)
        /\ MetaWord(xs_shard.meta, 1) = BigOf(Len(xs_shard.data.header))
        /\ MetaWord(xs_shard.meta, 1 + n) = DataLen(xs_shard.data)

\* C5: for every separator, newline and column list the XSVWriter constructor
\* accepts and every sample whose encoded values pass the writer's checks,
\* _decode_sample(_encode_sample(s)) == s.
C5_DelimitedRoundTrip ==
    xsv_decoded.kind # "none" =>
        (xsv_decoded.kind = "ok" /\ xsv_decoded.sample = xsv_sample)

\* C6: in every blob of _encode_joint_shard the offset table has
\* offsets[0] = 4 + 4*(n+1) + len(config), offsets[i+1] = offsets[i] +
\* len(sample i), is non-decreasing, and ends with the blob's byte length.
C6_OffsetTableExact ==
    \A s \in 1..Len(mds_shards) :
        LET blob == mds_shards[s].blob
            n == Len(blob.samples)
        IN  /\ blob.offsets[0] = BigOf(4 + 4 * (n + 1) + blob.config_len)
            /\ \A i \in 0..(n - 1) :
                  /\ blob.offsets[i + 1] = BigAdd(blob.offsets[i], blob.samples[i + 1])
                  /\ BigLe(blob.offsets[i], blob.offsets[i + 1])
            /\ blob.offsets[n] = BlobLen(blob)

RECURSIVE TotalBytes(_)
TotalBytes(shards) ==
    IF shards = <<>> THEN BigOf(0) ELSE BigAdd(shards[1].bytes, TotalBytes(Tail(shards)))

\* C7: every shard blob is extra_bytes_per_shard + n * extra_bytes_per_sample
\* + the encoded lengths of its n samples long, which is the running size the
\* writer accounted for it; and once the writer is finalized the raw_data
\* byte lengths of all shards add up to the encoded sizes of all samples plus
\* shard_count * (4 + 4 + len(config)) plus sample_count * 4.
C7_ShardBytesAccounted ==
    /\ \A s \in 1..Len(mds_shards) :
          LET sh == mds_shards[s]
              n == Len(sh.blob.samples)
          IN  /\ sh.bytes = BigAdd(BigOf(mds_writer.extra_bytes_per_shard
                                          + n * extra_bytes_per_sample),
                                    BigSum(sh.blob.samples))
              /\ sh.bytes = sh.accounted
    /\ mds_writer.state = "finished" =>
          TotalBytes(mds_shards) =
              BigAdd(BigSum(mds_added),
                     BigOf(Len(mds_shards) * (4 + 4 + mds_writer.config_len)
                           + Len(mds_added) * 4))

\* a finalized writer that rolled over: several shards, one of them holding
\* more than one sample
C7_Witness ==
    /\ mds_writer.state = "finished"
    /\ Len(mds_shards) >= 2
    /\ Len(mds_added) >= 3
    /\ \E s \in 1..Len(mds_shards) : Len(mds_shards[s].blob.samples) >= 2

\* C8: for a version-2 csv, tsv or xsv descriptor of an uncompressed shard
\* (compression none, zip_data and zip_meta none) reader_from_json does not
\* fail: it returns a reader with the descriptor's raw_data/raw_meta and
\* with zip_data and zip_meta none.
C8_UncompressedDescriptorLoads ==
    (/\ json_result.kind # "none"
     /\ json_obj.version = 2
     /\ json_obj.format \in {"csv", "tsv", "xsv"}
     /\ "column_names" \in DOMAIN json_obj
     /\ json_obj.compression = <<>>
     /\ json_obj.zip_data = NoneVal
     /\ json_obj.zip_meta = NoneVal)
    => /\ json_result.kind = "reader"
       /\ json_result.reader.raw_data = json_obj.raw_data
       /\ json_result.reader.raw_meta = json_obj.raw_meta
       /\ json_result.reader.zip_data = NoneVal
       /\ json_result.reader.zip_meta = NoneVal

\* C9: a version-2 descriptor made of the config the XSV/CSV/TSV writer
\* emits, the sample count and the FileInfo entries is accepted by
\* reader_from_json, and the reader has the writer's column names and
\* encodings in declared order and the writer's separator and newline.
C9_WriterDescriptorLoads ==
    (/\ json_result.kind # "none"
     /\ json_obj.version = 2
     /\ json_obj.format \in {"csv", "tsv", "xsv"}
     /\ "columns" \in DOMAIN json_obj
     /\ json_obj.zip_data # NoneVal
     /\ json_obj.zip_meta # NoneVal)
    => /\ json_result.kind = "reader"
       /\ json_result.reader.column_names = ColumnNames(json_obj.columns)
       /\ json_result.reader.column_encodings = ColumnEncodings(json_obj.columns)
       /\ json_result.reader.separator = json_obj.separator
       /\ json_result.reader.newline = json_obj.newline

====
